---- MODULE Spec2Model ----
(***************************************************************************)
(* Persistent identifier service (ompid): the three tables of the store,   *)
(* the request handlers of ompid/__init__.py and the schema and validators *)
(* of ompid/models/__init__.py.                                            *)
(*                                                                         *)
(* Text that the code formats, searches or composes (user namespaces,      *)
(* asset type ids, topio ids) is a sequence of one-character strings.      *)
(* Text that the code only stores and compares (user names, descriptions,  *)
(* local ids) is a TLA+ string.  An Optional value is a sequence of length *)
(* at most one: <<>> is None / SQL NULL, <<v>> is the value v.             *)
(*                                                                         *)
(* Each worker handles one request at a time.  A handler is split at its   *)
(* database round trips: the lookup query and the INSERT issued by         *)
(* db.commit() are separate steps, so requests of different workers        *)
(* interleave between them.                                                *)
(***************************************************************************)
EXTENDS Integers, Sequences, FiniteSets, TLC

VARIABLES topio_user, topio_asset_type, topio_asset,
          topio_user_id_seq, topio_asset__id_seq,
          pc, req, res, after

tables == <<topio_user, topio_asset_type, topio_asset>>
seqs == <<topio_user_id_seq, topio_asset__id_seq>>
vars == <<topio_user, topio_asset_type, topio_asset,
          topio_user_id_seq, topio_asset__id_seq, pc, req, res, after>>

(***************************************************************************)
(* Bounds of the model.                                                    *)
(***************************************************************************)
MaxUserSeq == 3
MaxLedgerUserSeq == 2
MaxAssetSeq == 2
MaxResolverUserSeq == 2
MaxResolverAssetSeq == 2
MaxLookupUserSeq == 2
MaxSequenceUserSeq == 1
MaxSequenceAssetSeq == 3
MaxStoreUserSeq == 1
MaxStoreAssetSeq == 1

Workers == {"w1", "w2"}

(***************************************************************************)
(* Text.                                                                   *)
(***************************************************************************)
None == <<>>
Some(v) == <<v>>

Whitespace == {" ", "\t", "\n", "\r"}

\* re.search(r'\s', s)
HasWhitespace(s) == \E i \in 1..Len(s) : s[i] \in Whitespace

Digits == <<"0", "1", "2", "3", "4", "5", "6", "7", "8", "9">>

\* str(n) of a non-negative int: its decimal digits
RECURSIVE IntToStr(_)
IntToStr(n) ==
    IF n < 10 THEN <<Digits[n + 1]>>
    ELSE IntToStr(n \div 10) \o <<Digits[(n % 10) + 1]>>

NoneStr == <<"N", "o", "n", "e">>

\* str(v) of an Optional[str] inside an f-string
OptToStr(o) == IF o = None THEN NoneStr ELSE o[1]

(***************************************************************************)
(* Rows and the schema's constraints.                                      *)
(***************************************************************************)
Rows(table) == {table[i] : i \in 1..Len(table)}

\* a name column without unique=True
UserNameNotUnique(table, row) == TRUE
\* name = Column(String, unique=True)
UserNameUnique(table, row) ==
    \A r \in Rows(table) : r.name # row.name

\* user_namespace = Column(String, unique=True)
UserNamespaceUnique(table, row) ==
    \A r \in Rows(table) : r.user_namespace # row.user_namespace

\* id = Column(Integer, primary_key=True, index=True)
UserPrimaryKey(table, row) ==
    \A r \in Rows(table) : r.id # row.id

\* TopioAssetTypeORM.id = Column(String, primary_key=True)
AssetTypePrimaryKey(table, row) ==
    \A r \in Rows(table) : r.id # row.id

(***************************************************************************)
(* Requests and responses.                                                 *)
(***************************************************************************)
NoReq == [op |-> "none"]
NoRes == [status |-> 0, body |-> None]

Response(status, body) == [status |-> status, body |-> body]

\* FastAPI answers a request whose model fails validation with 422 and an
\* unhandled exception of a handler with 500.
ValidationError == Response(422, "value_error")
InternalServerError == Response(500, "IntegrityError")

Free(w) == pc[w] \in {"idle", "done"}

InFlight(op) == Cardinality({w \in Workers : req[w].op = op /\ pc[w] # "done"})

\* A request begins: it follows every request that has completed by now.
Begin(w, request) ==
    /\ Free(w)
    /\ req' = [req EXCEPT ![w] = request]
    /\ after' = [v \in Workers |->
                    IF v = w THEN {u \in Workers \ {w} : pc[u] = "done"}
                    ELSE after[v] \ {w}]

Init ==
    /\ topio_user = <<>>
    /\ topio_asset_type = <<>>
    /\ topio_asset = <<>>
    /\ topio_user_id_seq = 0
    /\ topio_asset__id_seq = 0
    /\ pc = [w \in Workers |-> "idle"]
    /\ req = [w \in Workers |-> NoReq]
    /\ res = [w \in Workers |-> NoRes]
    /\ after = [w \in Workers |-> {}]

(***************************************************************************)
(* POST /users/register                                                    *)
(***************************************************************************)
\* a model without the validator
AnyUserNamespace(ns) == TRUE
\* TopioUserCreate._validate_user_namespace
ValidUserNamespace(ns) == ~HasWhitespace(ns)

\* a query that filters on the name alone
UserQueryByName(name, ns) == {r \in Rows(topio_user) : r.name = name}
\* the rows of the query of register_user
UserQuery(name, ns) ==
    {r \in Rows(topio_user) : r.name = name /\ r.user_namespace = ns}

\* The request arrives, its body is validated as a TopioUserCreate and the
\* handler runs db.query(TopioUserORM).filter(and_(...)).first().
RegisterUserQuery(w, name, ns) ==
    /\ Begin(w, [op |-> "register_user", name |-> name, user_namespace |-> ns])
    /\ IF ~ValidUserNamespace(ns)
       THEN /\ pc' = [pc EXCEPT ![w] = "done"]
            /\ res' = [res EXCEPT ![w] = ValidationError]
       ELSE LET found == UserQuery(name, ns) IN
            IF found # {}
            THEN \E r \in found :
                    /\ res' = [res EXCEPT ![w] = Response(200, r)]
                    /\ pc' = [pc EXCEPT ![w] = "done"]
            ELSE /\ pc' = [pc EXCEPT ![w] = "insert"]
                 /\ res' = [res EXCEPT ![w] = NoRes]
    /\ UNCHANGED <<tables, seqs>>

\* db.add(); db.commit(); db.refresh(): the INSERT takes the next value of
\* the id sequence and is rejected by the store when a constraint fails.
RegisterUserCommit(w) ==
    /\ pc[w] = "insert"
    /\ req[w].op = "register_user"
    /\ LET row == [id |-> topio_user_id_seq + 1,
                   name |-> req[w].name,
                   user_namespace |-> req[w].user_namespace] IN
       /\ topio_user_id_seq' = row.id
       /\ IF /\ UserPrimaryKey(topio_user, row)
             /\ UserNameUnique(topio_user, row)
             /\ UserNamespaceUnique(topio_user, row)
          THEN /\ topio_user' = Append(topio_user, row)
               /\ res' = [res EXCEPT ![w] = Response(201, row)]
          ELSE /\ UNCHANGED topio_user
               /\ res' = [res EXCEPT ![w] = InternalServerError]
    /\ pc' = [pc EXCEPT ![w] = "done"]
    /\ UNCHANGED <<topio_asset_type, topio_asset, topio_asset__id_seq, req, after>>

(***************************************************************************)
(* POST /asset_types/register                                              *)
(***************************************************************************)
\* TopioAssetType._validate_asset_type_id
ValidAssetTypeId(id) == ~HasWhitespace(id)

\* a query that filters on the id alone
AssetTypeQueryById(id, description) == {r \in Rows(topio_asset_type) : r.id = id}
\* the rows of the query of register_asset_type; SQLAlchemy renders
\* description == None as IS NULL, so None matches a NULL description
AssetTypeQuery(id, description) ==
    {r \in Rows(topio_asset_type) : r.id = id /\ r.description = description}

\* The request arrives, its body is validated as a TopioAssetType and the
\* handler runs db.query(TopioAssetTypeORM).filter(and_(...)).first().
RegisterAssetTypeQuery(w, id, description) ==
    /\ Begin(w, [op |-> "register_asset_type", id |-> id,
                 description |-> description])
    /\ IF ~ValidAssetTypeId(id)
       THEN /\ pc' = [pc EXCEPT ![w] = "done"]
            /\ res' = [res EXCEPT ![w] = ValidationError]
       ELSE LET found == AssetTypeQuery(id, description) IN
            IF found # {}
            THEN \E r \in found :
                    /\ res' = [res EXCEPT ![w] = Response(200, r)]
                    /\ pc' = [pc EXCEPT ![w] = "done"]
            ELSE /\ pc' = [pc EXCEPT ![w] = "insert"]
                 /\ res' = [res EXCEPT ![w] = NoRes]
    /\ UNCHANGED <<tables, seqs>>

\* a commit that merges: a stored asset type with this id takes the new
\* description
RegisterAssetTypeCommitMerging(w) ==
    /\ pc[w] = "insert"
    /\ req[w].op = "register_asset_type"
    /\ LET row == [id |-> req[w].id, description |-> req[w].description] IN
       /\ IF AssetTypePrimaryKey(topio_asset_type, row)
          THEN topio_asset_type' = Append(topio_asset_type, row)
          ELSE topio_asset_type' =
                   [i \in 1..Len(topio_asset_type) |->
                       IF topio_asset_type[i].id = row.id THEN row
                       ELSE topio_asset_type[i]]
       /\ res' = [res EXCEPT ![w] = Response(201, row)]
    /\ pc' = [pc EXCEPT ![w] = "done"]
    /\ UNCHANGED <<topio_user, topio_asset, seqs, req, after>>

\* db.add(); db.commit(); db.refresh()
RegisterAssetTypeCommit(w) ==
    /\ pc[w] = "insert"
    /\ req[w].op = "register_asset_type"
    /\ LET row == [id |-> req[w].id, description |-> req[w].description] IN
       IF AssetTypePrimaryKey(topio_asset_type, row)
       THEN /\ topio_asset_type' = Append(topio_asset_type, row)
            /\ res' = [res EXCEPT ![w] = Response(201, row)]
       ELSE /\ UNCHANGED topio_asset_type
            /\ res' = [res EXCEPT ![w] = InternalServerError]
    /\ pc' = [pc EXCEPT ![w] = "done"]
    /\ UNCHANGED <<topio_user, topio_asset, seqs, req, after>>

(***************************************************************************)
(* The asset's computed columns.                                           *)
(***************************************************************************)
\* user_ns = column_property(select([TopioUserORM.user_namespace])
\*     .where(TopioUserORM.id == owner_id).as_scalar()): NULL without a row
user_ns(owner_id) ==
    IF \E u \in Rows(topio_user) : u.id = owner_id
    THEN Some((CHOOSE u \in Rows(topio_user) : u.id = owner_id).user_namespace)
    ELSE None

\* a format that drops the first delimiter
FormatTopioIdUndelimited(ns, asset_type, id) == ns \o asset_type \o <<".">> \o id
\* f'{user_ns}.{asset_type}.{_id}' on the three texts
FormatTopioId(ns, asset_type, id) == ns \o <<".">> \o asset_type \o <<".">> \o id

\* a topio id numbered by the owner's id instead of the asset's
topio_id_of_owner(row) ==
    FormatTopioId(OptToStr(user_ns(row.owner_id)), row.asset_type,
                  IntToStr(row.owner_id))
\* TopioAssetORM.topio_id read on a loaded row
topio_id(row) ==
    FormatTopioId(OptToStr(user_ns(row.owner_id)), row.asset_type, IntToStr(row._id))

\* TopioAssetORM.topio_id read on the class, as get_custom_id does: the
\* hybrid property has no expression, so its getter runs on the class and
\* formats the three mapped attributes, whose str() is 'TopioAssetORM.<key>'
ClassName == <<"T", "o", "p", "i", "o", "A", "s", "s", "e", "t", "O", "R", "M">>
ClassTopioId ==
    FormatTopioId(ClassName \o <<".", "u", "s", "e", "r", "_", "n", "s">>,
                  ClassName \o <<".", "a", "s", "s", "e", "t", "_", "t", "y", "p", "e">>,
                  ClassName \o <<".", "_", "i", "d">>)

\* what the handlers return for an asset row: the loaded object
LoadedAsset(row) ==
    [_id |-> row._id, local_id |-> row.local_id, owner_id |-> row.owner_id,
     asset_type |-> row.asset_type, description |-> row.description,
     topio_id |-> topio_id(row)]

(***************************************************************************)
(* POST /assets/register                                                   *)
(***************************************************************************)
\* an owner column without the ForeignKey
OwnerUnreferenced(row) == TRUE
\* owner_id = Column(Integer, ForeignKey('topio_user.id'))
OwnerForeignKey(row) == \E u \in Rows(topio_user) : u.id = row.owner_id

\* asset_type = Column(String, ForeignKey('topio_asset_type.id'))
AssetTypeForeignKey(row) == \E t \in Rows(topio_asset_type) : t.id = row.asset_type

\* _id = Column(Integer, primary_key=True, ...)
AssetPrimaryKey(row) == \A a \in Rows(topio_asset) : a._id # row._id

\* a sequence that wraps around after two values
NextAssetIdCycling(w) == (topio_asset__id_seq % 2) + 1

\* a numbering of the assets per owner
NextAssetIdPerOwner(w) ==
    1 + Cardinality({i \in 1..Len(topio_asset) :
                        topio_asset[i].owner_id = req[w].owner_id})
\* _id = Column(..., autoincrement=True): the next value of the sequence
NextAssetId(w) == topio_asset__id_seq + 1

\* The request arrives; TopioAssetCreate has no validator.
BeginRegisterAsset(w, local_id, owner_id, asset_type, description) ==
    /\ Begin(w, [op |-> "register_asset", local_id |-> local_id,
                 owner_id |-> owner_id, asset_type |-> asset_type,
                 description |-> description])
    /\ pc' = [pc EXCEPT ![w] = "insert"]
    /\ res' = [res EXCEPT ![w] = NoRes]
    /\ UNCHANGED <<tables, seqs>>

\* a handler that stores the row and checks its references afterwards
RegisterAssetCommitThenCheck(w) ==
    /\ pc[w] = "insert"
    /\ req[w].op = "register_asset"
    /\ LET row == [_id |-> topio_asset__id_seq + 1,
                   local_id |-> req[w].local_id,
                   owner_id |-> req[w].owner_id,
                   asset_type |-> req[w].asset_type,
                   description |-> req[w].description] IN
       /\ topio_asset__id_seq' = topio_asset__id_seq + 1
       /\ topio_asset' = Append(topio_asset, row)
       /\ IF OwnerForeignKey(row) /\ AssetTypeForeignKey(row)
          THEN res' = [res EXCEPT ![w] = Response(200, LoadedAsset(row))]
          ELSE res' = [res EXCEPT ![w] = InternalServerError]
    /\ pc' = [pc EXCEPT ![w] = "done"]
    /\ UNCHANGED <<topio_user, topio_asset_type, topio_user_id_seq, req, after>>

\* db.add(); db.commit(); db.refresh(); return topio_asset_orm
RegisterAssetCommit(w) ==
    /\ pc[w] = "insert"
    /\ req[w].op = "register_asset"
    /\ LET row == [_id |-> NextAssetId(w),
                   local_id |-> req[w].local_id,
                   owner_id |-> req[w].owner_id,
                   asset_type |-> req[w].asset_type,
                   description |-> req[w].description] IN
       /\ topio_asset__id_seq' = topio_asset__id_seq + 1
       /\ IF AssetPrimaryKey(row) /\ OwnerForeignKey(row) /\ AssetTypeForeignKey(row)
          THEN /\ topio_asset' = Append(topio_asset, row)
               /\ res' = [res EXCEPT ![w] = Response(200, LoadedAsset(row))]
          ELSE /\ UNCHANGED topio_asset
               /\ res' = [res EXCEPT ![w] = InternalServerError]
    /\ pc' = [pc EXCEPT ![w] = "done"]
    /\ UNCHANGED <<topio_user, topio_asset_type, topio_user_id_seq, req, after>>

(***************************************************************************)
(* GET /assets/topio_id and GET /assets/custom_id                          *)
(***************************************************************************)
\* a query that filters on the owner and the asset type alone
TopioIdQueryAnyLocalId(owner_id, asset_type, local_id) ==
    {a \in Rows(topio_asset) : a.owner_id = owner_id /\ a.asset_type = asset_type}
\* the rows of the query of get_topio_id
TopioIdQuery(owner_id, asset_type, local_id) ==
    {a \in Rows(topio_asset) : /\ a.owner_id = owner_id
                               /\ a.asset_type = asset_type
                               /\ a.local_id = Some(local_id)}

\* .first() has no ORDER BY: any matching row may come first
GetTopioId(w, owner_id, asset_type, local_id) ==
    /\ Begin(w, [op |-> "get_topio_id", owner_id |-> owner_id,
                 asset_type |-> asset_type, local_id |-> local_id])
    /\ LET found == TopioIdQuery(owner_id, asset_type, local_id) IN
       IF found = {}
       THEN res' = [res EXCEPT ![w] = Response(404, "No topio ID found")]
       ELSE \E a \in found : res' = [res EXCEPT ![w] = Response(200, topio_id(a))]
    /\ pc' = [pc EXCEPT ![w] = "done"]
    /\ UNCHANGED <<tables, seqs>>

\* the rows of the query of get_custom_id: the first criterion compares two
\* Python strings and is the constant true or false in the SQL
CustomIdQuery(id) ==
    {a \in Rows(topio_asset) : ClassTopioId = id /\ a.local_id # None}

\* query.get('topio_id') is None when the key is missing
GetCustomId(w, query_topio_id) ==
    /\ Begin(w, [op |-> "get_custom_id", topio_id |-> query_topio_id])
    /\ LET found == IF query_topio_id = None THEN {}
                    ELSE CustomIdQuery(query_topio_id[1]) IN
       IF found = {}
       THEN res' = [res EXCEPT ![w] = Response(404, "No custom ID found")]
       ELSE \E a \in found : res' = [res EXCEPT ![w] = Response(200, a.local_id[1])]
    /\ pc' = [pc EXCEPT ![w] = "done"]
    /\ UNCHANGED <<tables, seqs>>

(***************************************************************************)
(* GET /users/{id}, GET /asset_types/{id}, GET /asset_types/, GET /assets/ *)
(***************************************************************************)
\* get_user_info: the handler returns .first(), the row or None; the
\* response is the default 200 with what the handler returned
GetUserInfo(w, topio_user_id) ==
    /\ Begin(w, [op |-> "get_user_info", topio_user_id |-> topio_user_id])
    /\ LET found == {u \in Rows(topio_user) : u.id = topio_user_id} IN
       IF found = {}
       THEN res' = [res EXCEPT ![w] = Response(200, None)]
       ELSE \E u \in found : res' = [res EXCEPT ![w] = Response(200, u)]
    /\ pc' = [pc EXCEPT ![w] = "done"]
    /\ UNCHANGED <<tables, seqs>>

\* get_asset_namespace_info: the row with the id, or None
GetAssetNamespaceInfo(w, topio_asset_type_id) ==
    /\ Begin(w, [op |-> "get_asset_namespace_info",
                 topio_asset_type_id |-> topio_asset_type_id])
    /\ LET found == {t \in Rows(topio_asset_type) : t.id = topio_asset_type_id} IN
       IF found = {}
       THEN res' = [res EXCEPT ![w] = Response(200, None)]
       ELSE \E t \in found : res' = [res EXCEPT ![w] = Response(200, t)]
    /\ pc' = [pc EXCEPT ![w] = "done"]
    /\ UNCHANGED <<tables, seqs>>

\* get_asset_types: .all() has no ORDER BY, the body is the rows in no order
GetAssetTypes(w) ==
    /\ Begin(w, [op |-> "get_asset_types"])
    /\ res' = [res EXCEPT ![w] = Response(200, Rows(topio_asset_type))]
    /\ pc' = [pc EXCEPT ![w] = "done"]
    /\ UNCHANGED <<tables, seqs>>

\* get_users_assets: the loaded assets of the owner, in no order
GetUsersAssets(w, user_id) ==
    /\ Begin(w, [op |-> "get_users_assets", user_id |-> user_id])
    /\ res' = [res EXCEPT ![w] =
                 Response(200, {LoadedAsset(a) : a \in
                                   {x \in Rows(topio_asset) : x.owner_id = user_id}})]
    /\ pc' = [pc EXCEPT ![w] = "done"]
    /\ UNCHANGED <<tables, seqs>>

(***************************************************************************)
(* Inputs of the requests and the specifications.                          *)
(***************************************************************************)
Names == {"User ABC", "User DEF"}
Namespaces == {<<"a">>, <<"a", ".", "f">>, <<"a", " ", "b">>}
AssetTypeIds == {<<"f">>, <<"f", ".", "f">>, <<"f", " ", "g">>}
Descriptions == {None, Some("Data assets"), Some("Other assets")}
LocalIds == {"hdfs://foo/bar"}

\* The specifications cap the two id sequences: a request that may take a
\* value of a sequence begins only while values are left under the cap.
UserSeqLeft(cap) == topio_user_id_seq + InFlight("register_user") < cap
AssetSeqLeft(cap) == topio_asset__id_seq + InFlight("register_asset") < cap

UserRequests(users, cap) ==
    \E w \in Workers :
        \/ \E u \in users : UserSeqLeft(cap) /\ RegisterUserQuery(w, u[1], u[2])
        \/ RegisterUserCommit(w)

AssetTypeRequests(ids, descriptions) ==
    \E w \in Workers :
        \/ \E id \in ids, d \in descriptions : RegisterAssetTypeQuery(w, id, d)
        \/ RegisterAssetTypeCommit(w)

RegisterAssetRequests(local_ids, owners, types, cap) ==
    \E w \in Workers :
        \/ \E l \in local_ids, o \in owners, t \in types :
                AssetSeqLeft(cap) /\ BeginRegisterAsset(w, l, o, t, None)
        \/ RegisterAssetCommit(w)

ResolveRequests(owners, types, local_ids, topio_ids) ==
    \E w \in Workers :
        \/ \E o \in owners, t \in types, l \in local_ids : GetTopioId(w, o, t, l)
        \/ \E g \in topio_ids : GetCustomId(w, g)

UserLookupRequests(user_ids) ==
    \E w \in Workers : \E id \in user_ids : GetUserInfo(w, id)

CatalogRequests(type_ids) ==
    \E w \in Workers :
        \/ \E id \in type_ids : GetAssetNamespaceInfo(w, id)
        \/ GetAssetTypes(w)

OwnerAssetsRequests(owners) ==
    \E w \in Workers : \E o \in owners : GetUsersAssets(w, o)

\* the namespace registry alone
NextUser == UserRequests(Names \X Namespaces, MaxUserSeq)
SpecUser == Init /\ [][NextUser]_vars

\* the asset type catalog alone
NextAssetType == AssetTypeRequests(AssetTypeIds, Descriptions)
SpecAssetType == Init /\ [][NextAssetType]_vars

\* the asset ledger over a registry of two users and two asset types whose
\* namespaces and type ids compose to the same prefix
LedgerUsers == {<<"User ABC", <<"a">>>>, <<"User DEF", <<"a", ".", "f">>>>}
LedgerAssetTypeIds == {<<"f">>, <<"f", ".", "f">>}
LedgerOwners == 1..2

NextLedger ==
    \/ UserRequests(LedgerUsers, MaxLedgerUserSeq)
    \/ AssetTypeRequests(LedgerAssetTypeIds, {None})
    \/ RegisterAssetRequests({Some(l) : l \in LocalIds}, LedgerOwners,
                             LedgerAssetTypeIds, MaxAssetSeq)
SpecLedger == Init /\ [][NextLedger]_vars

\* the resolver over a registry of one user and one asset type, with assets
\* that have a local id and assets that have none
ResolverUsers == {<<"User ABC", <<"a">>>>}
ResolverAssetTypeIds == {<<"f">>}
ResolverOwners == 1..2
ResolverTopioIds ==
    {None, Some(ClassTopioId), Some(<<"a", ".", "g", ".", "1">>)} \cup
    {Some(FormatTopioId(<<"a">>, <<"f">>, IntToStr(n))) : n \in 1..MaxResolverAssetSeq}

NextResolver ==
    \/ UserRequests(ResolverUsers, MaxResolverUserSeq)
    \/ AssetTypeRequests(ResolverAssetTypeIds, {None})
    \/ RegisterAssetRequests({None} \cup {Some(l) : l \in LocalIds}, ResolverOwners,
                             ResolverAssetTypeIds, MaxResolverAssetSeq)
    \/ ResolveRequests(ResolverOwners, ResolverAssetTypeIds, LocalIds,
                       ResolverTopioIds)
SpecResolver == Init /\ [][NextResolver]_vars

\* both registrations with one well-formed and one malformed input each
ValidationUsers == {"User ABC"} \X {<<"a">>, <<"a", " ", "b">>}
ValidationAssetTypeIds == {<<"f">>, <<"f", " ", "g">>}

NextValidation ==
    \/ UserRequests(ValidationUsers, MaxUserSeq)
    \/ AssetTypeRequests(ValidationAssetTypeIds, {None})
SpecValidation == Init /\ [][NextValidation]_vars

\* every operation on every input
AllOwners == 1..MaxUserSeq
AllTopioIds ==
    {None, Some(ClassTopioId)} \cup
    {Some(FormatTopioId(ns, t, IntToStr(n))) :
        ns \in Namespaces, t \in AssetTypeIds, n \in 1..MaxAssetSeq}

Next ==
    \/ UserRequests(Names \X Namespaces, MaxUserSeq)
    \/ AssetTypeRequests(AssetTypeIds, Descriptions)
    \/ RegisterAssetRequests({None} \cup {Some(l) : l \in LocalIds}, AllOwners,
                             AssetTypeIds, MaxAssetSeq)
    \/ ResolveRequests(AllOwners, AssetTypeIds, LocalIds, AllTopioIds)
    \/ UserLookupRequests(AllOwners)
    \/ CatalogRequests(AssetTypeIds)
    \/ OwnerAssetsRequests(AllOwners)
Spec == Init /\ [][Next]_vars

\* the namespace registry with its lookup
NextLookup ==
    \/ UserRequests(LedgerUsers, MaxLookupUserSeq)
    \/ UserLookupRequests(1..MaxLookupUserSeq)
SpecLookup == Init /\ [][NextLookup]_vars

\* the asset ledger of one user and one asset type, with registrations for
\* an owner that is never stored
SequenceOwners == 1..2

NextSequence ==
    \/ UserRequests(ResolverUsers, MaxSequenceUserSeq)
    \/ AssetTypeRequests(ResolverAssetTypeIds, {None})
    \/ RegisterAssetRequests({None}, SequenceOwners, ResolverAssetTypeIds,
                             MaxSequenceAssetSeq)
SpecSequence == Init /\ [][NextSequence]_vars

\* every operation over a registry of one user and one asset type that is
\* registered with two descriptions
StoreOwners == 1..MaxStoreUserSeq
StoreDescriptions == {None, Some("Data assets")}
StoreTopioIds ==
    {Some(ClassTopioId)} \cup
    {Some(FormatTopioId(<<"a">>, <<"f">>, IntToStr(n))) : n \in 1..MaxStoreAssetSeq}

NextStore ==
    \/ UserRequests(ResolverUsers, MaxStoreUserSeq)
    \/ AssetTypeRequests(ResolverAssetTypeIds, StoreDescriptions)
    \/ RegisterAssetRequests({Some(l) : l \in LocalIds}, StoreOwners,
                             ResolverAssetTypeIds, MaxStoreAssetSeq)
    \/ ResolveRequests(StoreOwners, ResolverAssetTypeIds, LocalIds, StoreTopioIds)
    \/ UserLookupRequests(StoreOwners)
    \/ CatalogRequests(ResolverAssetTypeIds)
    \/ OwnerAssetsRequests(StoreOwners)
SpecStore == Init /\ [][NextStore]_vars

(***************************************************************************)
(* Outcomes of a request, as the specification names them.                 *)
(***************************************************************************)
Done(w, op) == pc[w] = "done" /\ req[w].op = op

Success(r) == r.status \in {200, 201}
InvalidArgument(r) == r.status = 422
UnhandledFault(r) == r.status = 500
\* a failure the handler reports itself: neither a success, nor FastAPI's
\* validation answer, nor its answer to an exception nobody caught
HandledFailure(r) == r.status # 0 /\ ~Success(r) /\ ~InvalidArgument(r) /\ ~UnhandledFault(r)

\* worker w has just taken up a new request in this step
TakesUp(w) == Free(w) /\ <<pc[w], req[w], res[w]>>' # <<pc[w], req[w], res[w]>>

SameUser(i, j) ==
    \/ topio_user[i].id = topio_user[j].id
    \/ topio_user[i].name = topio_user[j].name
    \/ topio_user[i].user_namespace = topio_user[j].user_namespace

(***************************************************************************)
(* C1: no two stored users share an identity, a name or a namespace, in    *)
(* every reachable state, whatever register_user requests interleave.      *)
(***************************************************************************)
C1_UsersUnique ==
    \A i, j \in 1..Len(topio_user) : i # j => ~SameUser(i, j)

\* two users are stored, and a request that ran its existence check while
\* another was in flight had its insert rejected
C1_Witness ==
    /\ Len(topio_user) = 2
    /\ \E w, v \in Workers :
          /\ Done(w, "register_user") /\ UnhandledFault(res[w])
          /\ Done(v, "register_user") /\ res[v].status = 201
          /\ v \notin after[w]

(***************************************************************************)
(* C2: a well-formed register_user(name, namespace) that follows a         *)
(* completed, successful call with the same pair returns the same user id, *)
(* and exactly one row is stored with that name and namespace.             *)
(***************************************************************************)
UserRowsOf(name, ns) ==
    {i \in 1..Len(topio_user) :
        topio_user[i].name = name /\ topio_user[i].user_namespace = ns}

C2_RegisterUserIdempotent ==
    \A w \in Workers : \A v \in after[w] :
        ( /\ Done(w, "register_user") /\ Done(v, "register_user")
          /\ req[w] = req[v]
          /\ ~HasWhitespace(req[w].user_namespace)
          /\ Success(res[v]) )
        => /\ Success(res[w])
           /\ res[w].body.id = res[v].body.id
           /\ Cardinality(UserRowsOf(req[w].name, req[w].user_namespace)) = 1

\* the first call created the user and the second call found it
C2_Witness ==
    \E w \in Workers : \E v \in after[w] :
        /\ Done(w, "register_user") /\ Done(v, "register_user")
        /\ req[w] = req[v]
        /\ res[v].status = 201
        /\ res[w].status = 200
        /\ res[w].body.id = res[v].body.id

(***************************************************************************)
(* C7: register_user with whitespace in the namespace and                  *)
(* register_asset_type with whitespace in the id end in the validation     *)
(* outcome in the step that takes the request up, and that step leaves the *)
(* tables and the sequences as they were; no stored row has whitespace in  *)
(* its namespace or type id.                                               *)
(***************************************************************************)
Malformed(r) ==
    \/ r.op = "register_user" /\ HasWhitespace(r.user_namespace)
    \/ r.op = "register_asset_type" /\ HasWhitespace(r.id)

C7_RejectedBeforePersistence ==
    /\ [](/\ \A u \in Rows(topio_user) : ~HasWhitespace(u.user_namespace)
          /\ \A t \in Rows(topio_asset_type) : ~HasWhitespace(t.id)
          /\ \A w \in Workers : Malformed(req[w]) =>
                pc[w] = "done" /\ InvalidArgument(res[w]))
    /\ [][\A w \in Workers :
            (TakesUp(w) /\ Malformed(req'[w])) =>
                /\ pc'[w] = "done"
                /\ InvalidArgument(res'[w])
                /\ tables' = tables
                /\ seqs' = seqs]_vars

\* both malformed requests were answered while a user and an asset type
\* are stored
C7_Witness ==
    /\ topio_user # <<>>
    /\ topio_asset_type # <<>>
    /\ \E w, v \in Workers :
          /\ Done(w, "register_user") /\ Malformed(req[w])
          /\ InvalidArgument(res[w])
          /\ Done(v, "register_asset_type") /\ Malformed(req[v])
          /\ InvalidArgument(res[v])

(***************************************************************************)
(* C8: a well-formed register_user whose name was stored with another      *)
(* namespace, or whose namespace was stored with another name, by a        *)
(* request completed before it, ends in a Conflict outcome: a failure that *)
(* is neither the validation outcome nor an unhandled fault.               *)
(***************************************************************************)
ConflictingUser(r, u) ==
    \/ u.name = r.name /\ u.user_namespace # r.user_namespace
    \/ u.name # r.name /\ u.user_namespace = r.user_namespace

C8_ConflictReported ==
    \A w \in Workers : \A v \in after[w] :
        ( /\ Done(w, "register_user") /\ Done(v, "register_user")
          /\ ~HasWhitespace(req[w].user_namespace)
          /\ Success(res[v])
          /\ ConflictingUser(req[w], res[v].body) )
        => HandledFailure(res[w])

(***************************************************************************)
(* C9: a register_asset_type whose id was stored with another description  *)
(* by a request completed before it ends in a Conflict outcome, and the    *)
(* stored entry keeps its original description.                            *)
(***************************************************************************)
C9_AssetTypeConflictReported ==
    \A w \in Workers : \A v \in after[w] :
        ( /\ Done(w, "register_asset_type") /\ Done(v, "register_asset_type")
          /\ ~HasWhitespace(req[w].id)
          /\ Success(res[v])
          /\ res[v].body.id = req[w].id
          /\ res[v].body.description # req[w].description )
        => /\ HandledFailure(res[w])
           /\ \A t \in Rows(topio_asset_type) :
                 t.id = req[w].id => t.description = res[v].body.description

(***************************************************************************)
(* C10: a well-formed register_asset_type(id, description) that follows a  *)
(* completed, successful call with the same pair returns the existing      *)
(* entry, and exactly one row is stored with that id, with the registered  *)
(* description.                                                            *)
(***************************************************************************)
AssetTypeRowsOf(id) ==
    {i \in 1..Len(topio_asset_type) : topio_asset_type[i].id = id}

C10_RegisterAssetTypeIdempotent ==
    \A w \in Workers : \A v \in after[w] :
        ( /\ Done(w, "register_asset_type") /\ Done(v, "register_asset_type")
          /\ req[w] = req[v]
          /\ ~HasWhitespace(req[w].id)
          /\ Success(res[v]) )
        => /\ res[w].status = 200
           /\ res[w].body = res[v].body
           /\ Cardinality(AssetTypeRowsOf(req[w].id)) = 1
           /\ \A i \in AssetTypeRowsOf(req[w].id) :
                 topio_asset_type[i].description = req[w].description

\* the first call created the entry, with a description, and the second
\* call found it
C10_Witness ==
    \E w \in Workers : \E v \in after[w] :
        /\ Done(w, "register_asset_type") /\ Done(v, "register_asset_type")
        /\ req[w] = req[v]
        /\ req[w].description # None
        /\ res[v].status = 201
        /\ res[w].status = 200

(***************************************************************************)
(* C3: stored assets have pairwise different sequence numbers; two         *)
(* successful register_asset requests, concurrent and identical ones       *)
(* included, got different numbers and each has its own row; a             *)
(* registration whose owner and type are stored is never lost: its commit  *)
(* succeeds and adds exactly one row with a number no stored row has.      *)
(***************************************************************************)
AssetIds == {topio_asset[i]._id : i \in 1..Len(topio_asset)}

AssetRowsOf(w) ==
    {i \in 1..Len(topio_asset) :
        /\ topio_asset[i]._id = res[w].body._id
        /\ topio_asset[i].local_id = req[w].local_id
        /\ topio_asset[i].owner_id = req[w].owner_id
        /\ topio_asset[i].asset_type = req[w].asset_type}

RegisteredAsset(w) == Done(w, "register_asset") /\ Success(res[w])

Concurrent(w, v) == w # v /\ v \notin after[w] /\ w \notin after[v]

CommitsAsset(w) ==
    pc[w] = "insert" /\ req[w].op = "register_asset" /\ pc'[w] = "done"

C3_DistinctSequenceNumbers ==
    /\ [](/\ \A i, j \in 1..Len(topio_asset) :
                i # j => topio_asset[i]._id # topio_asset[j]._id
          /\ \A w, v \in Workers :
                (w # v /\ RegisteredAsset(w) /\ RegisteredAsset(v))
                => res[w].body._id # res[v].body._id
          /\ \A w \in Workers :
                RegisteredAsset(w) => Cardinality(AssetRowsOf(w)) = 1)
    /\ [][\A w \in Workers :
            ( /\ CommitsAsset(w)
              /\ \E u \in Rows(topio_user) : u.id = req[w].owner_id
              /\ \E t \in Rows(topio_asset_type) : t.id = req[w].asset_type )
            => /\ Success(res'[w])
               /\ Len(topio_asset') = Len(topio_asset) + 1
               /\ SubSeq(topio_asset', 1, Len(topio_asset)) = topio_asset
               /\ topio_asset'[Len(topio_asset')]._id \notin AssetIds]_vars

\* two concurrent registrations with identical fields both succeeded
C3_Witness ==
    \E w, v \in Workers :
        /\ Concurrent(w, v)
        /\ RegisteredAsset(w) /\ RegisteredAsset(v)
        /\ req[w] = req[v]
        /\ Len(topio_asset) = 2

(***************************************************************************)
(* C4: the global identifier of every stored asset, as register_asset      *)
(* returned it and as resolve_global returns it, is the stored namespace   *)
(* of its owner, '.', its asset type id, '.', and its sequence number in   *)
(* decimal.                                                                *)
(***************************************************************************)
OwnerOf(a) == CHOOSE u \in Rows(topio_user) : u.id = a.owner_id

GlobalIdOf(a) ==
    OwnerOf(a).user_namespace \o <<".">> \o a.asset_type \o <<".">> \o IntToStr(a._id)

C4_GlobalIdComposition ==
    /\ \A a \in Rows(topio_asset) :
          /\ \E u \in Rows(topio_user) : u.id = a.owner_id
          /\ topio_id(a) = GlobalIdOf(a)
          /\ (OwnerOf(a).user_namespace = <<"a">> /\ a.asset_type = <<"f">> /\ a._id = 1)
             => topio_id(a) = <<"a", ".", "f", ".", "1">>
    /\ \A w \in Workers :
          RegisteredAsset(w) =>
             \E a \in Rows(topio_asset) :
                /\ a._id = res[w].body._id
                /\ res[w].body.topio_id = GlobalIdOf(a)
    /\ \A w \in Workers :
          (Done(w, "get_topio_id") /\ Success(res[w])) =>
             \E a \in Rows(topio_asset) :
                /\ a.owner_id = req[w].owner_id
                /\ a.asset_type = req[w].asset_type
                /\ a.local_id = Some(req[w].local_id)
                /\ res[w].body = GlobalIdOf(a)

\* an asset was registered and resolve_global returned the identifier that
\* the registration returned
C4_Witness ==
    \E w, v \in Workers :
        /\ RegisteredAsset(w)
        /\ Done(v, "get_topio_id") /\ Success(res[v])
        /\ res[v].body = res[w].body.topio_id

(***************************************************************************)
(* C5: any two distinct stored assets have different global identifiers,   *)
(* also when a namespace or a type id contains the delimiter.              *)
(***************************************************************************)
C5_GlobalIdsUnique ==
    \A i, j \in 1..Len(topio_asset) :
        i # j => topio_id(topio_asset[i]) # topio_id(topio_asset[j])

\* two assets of different owners whose namespace and type compose to the
\* same text: namespace a with type f.f, and namespace a.f with type f
C5_Witness ==
    \E i, j \in 1..Len(topio_asset) :
        /\ topio_asset[i].owner_id # topio_asset[j].owner_id
        /\ topio_asset[i].asset_type # topio_asset[j].asset_type
        /\ FormatTopioId(OptToStr(user_ns(topio_asset[i].owner_id)),
                         topio_asset[i].asset_type, <<>>)
           = FormatTopioId(OptToStr(user_ns(topio_asset[j].owner_id)),
                           topio_asset[j].asset_type, <<>>)

(***************************************************************************)
(* C6: round trip.  When resolve_global(owner, type, local_id) has         *)
(* returned the global identifier g, a following resolve_local(g) returns  *)
(* local_id.                                                               *)
(***************************************************************************)
C6_RoundTrip ==
    \A w \in Workers : \A v \in after[w] :
        ( /\ Done(v, "get_topio_id") /\ Success(res[v])
          /\ Done(w, "get_custom_id")
          /\ req[w].topio_id = Some(res[v].body) )
        => res[w] = Response(200, req[v].local_id)

(***************************************************************************)
(* C11: register_asset with an owner_id that matches no stored user, or an *)
(* asset_type that matches no stored asset type, ends in a NotFound        *)
(* outcome, not in an unhandled fault.                                     *)
(***************************************************************************)
NotFound(r) == r.status = 404

\* users and asset types are never removed: a reference missing now was
\* missing when the request ran
MissingReference(r) ==
    \/ ~\E u \in Rows(topio_user) : u.id = r.owner_id
    \/ ~\E t \in Rows(topio_asset_type) : t.id = r.asset_type

C11_MissingReferenceNotFound ==
    \A w \in Workers :
        (Done(w, "register_asset") /\ MissingReference(req[w]))
        => NotFound(res[w]) /\ ~UnhandledFault(res[w])

(***************************************************************************)
(* C12: referential integrity.  Every stored asset's owner_id is the id of *)
(* a stored user and its asset_type is the id of a stored asset type.      *)
(***************************************************************************)
C12_ReferentialIntegrity ==
    \A a \in Rows(topio_asset) :
        /\ \E u \in Rows(topio_user) : u.id = a.owner_id
        /\ \E t \in Rows(topio_asset_type) : t.id = a.asset_type

\* an asset is stored, and a registration that named a user who is still
\* not stored was rejected
C12_Witness ==
    /\ topio_asset # <<>>
    /\ \E w \in Workers :
          /\ Done(w, "register_asset")
          /\ ~\E u \in Rows(topio_user) : u.id = req[w].owner_id
          /\ ~Success(res[w])


(***************************************************************************)
(* C13: when two register_user requests for the same new pair both run     *)
(* their existence check before either inserts, and one of them stores the *)
(* user, both end with that user's identity, neither ends in an unhandled  *)
(* fault, and one row is stored.  The same for two register_asset_type     *)
(* requests with the same new (id, description).                           *)
(***************************************************************************)
\* w and v overlapped and v stored the row both asked for: w's check ran
\* while v had not inserted yet
RacedWithCreator(w, v, op) ==
    /\ Concurrent(w, v)
    /\ Done(w, op) /\ Done(v, op)
    /\ req[w] = req[v]
    /\ ~Malformed(req[w])
    /\ res[v].status = 201

C13_RaceReturnsExisting ==
    \A w, v \in Workers :
        /\ RacedWithCreator(w, v, "register_user")
           => /\ ~UnhandledFault(res[w])
              /\ Success(res[w])
              /\ res[w].body.id = res[v].body.id
              /\ Cardinality(UserRowsOf(req[w].name, req[w].user_namespace)) = 1
        /\ RacedWithCreator(w, v, "register_asset_type")
           => /\ ~UnhandledFault(res[w])
              /\ Success(res[w])
              /\ res[w].body = res[v].body
              /\ Cardinality(AssetTypeRowsOf(req[w].id)) = 1


(***************************************************************************)
(* C14: resolve_local(g) ends in NotFound, with the same answer, when no   *)
(* stored asset has the global identifier g and when the asset that has it *)
(* has no local identifier.                                                *)
(***************************************************************************)
\* assets are never removed or changed: no asset with a local id has the
\* identifier now, so none had it when the request ran
NoCustomIdFor(g) ==
    \A a \in Rows(topio_asset) : GlobalIdOf(a) = g => a.local_id = None

C14_ResolveLocalNotFound ==
    \A w \in Workers :
        ( /\ Done(w, "get_custom_id")
          /\ req[w].topio_id # None
          /\ NoCustomIdFor(req[w].topio_id[1]) )
        => res[w] = Response(404, "No custom ID found")

(***************************************************************************)
(* C20: resolve_local(g) returns a local identifier L only if a stored     *)
(* asset has the global identifier g and the local identifier L.           *)
(***************************************************************************)
C20_ResolveLocalOnlyExactMatch ==
    \A w \in Workers :
        (Done(w, "get_custom_id") /\ Success(res[w]))
        => /\ req[w].topio_id # None
           /\ \E a \in Rows(topio_asset) :
                 /\ GlobalIdOf(a) = req[w].topio_id[1]
                 /\ a.local_id = Some(res[w].body)


(***************************************************************************)
(* C15: resolve_global(owner_id, asset_type, local_id) answers NotFound    *)
(* exactly when no stored asset has the three fields equal to the          *)
(* arguments; otherwise it returns the global identifier of a stored asset *)
(* that has them.                                                          *)
(***************************************************************************)
AssetsMatching(r) ==
    {a \in Rows(topio_asset) : /\ a.owner_id = r.owner_id
                               /\ a.asset_type = r.asset_type
                               /\ a.local_id # None
                               /\ a.local_id[1] = r.local_id}

C15_ResolveGlobal ==
    [][\A w \in Workers :
        (TakesUp(w) /\ req'[w].op = "get_topio_id") =>
            /\ pc'[w] = "done"
            /\ NotFound(res'[w]) <=> AssetsMatching(req'[w]) = {}
            /\ AssetsMatching(req'[w]) # {} =>
                  /\ Success(res'[w])
                  /\ \E a \in AssetsMatching(req'[w]) : res'[w].body = GlobalIdOf(a)]_vars

\* resolve_global answered while two stored assets have the three fields
C15_Witness ==
    \E w \in Workers :
        /\ Done(w, "get_topio_id") /\ Success(res[w])
        /\ Cardinality({i \in 1..Len(topio_asset) :
                           topio_asset[i] \in AssetsMatching(req[w])}) = 2


(***************************************************************************)
(* C16: lookup(user_id) returns the stored user, as registration returned  *)
(* it, when a user with that id is stored, and NotFound when none is.      *)
(***************************************************************************)
C16_LookupUser ==
    \A w \in Workers :
        Done(w, "get_user_info") =>
            /\ \A v \in after[w] :
                  ( /\ Done(v, "register_user") /\ Success(res[v])
                    /\ res[v].body.id = req[w].topio_user_id )
                  => res[w] = Response(200, res[v].body)
            /\ (~\E u \in Rows(topio_user) : u.id = req[w].topio_user_id)
               => NotFound(res[w])


(***************************************************************************)
(* C17: a registration (register_user, register_asset_type,                *)
(* register_asset) that ends in a failure leaves the three tables exactly  *)
(* as they were before the step that ended it.                             *)
(***************************************************************************)
Registrations == {"register_user", "register_asset_type", "register_asset"}

\* this step ends w's request
Ends(w) == (pc[w] = "insert" \/ TakesUp(w)) /\ pc'[w] = "done"

C17_FailureWritesNothing ==
    [][\A w \in Workers :
        (Ends(w) /\ req'[w].op \in Registrations /\ ~Success(res'[w]))
        => tables' = tables]_vars

\* a user registration and an asset registration were both rejected by the
\* store while rows are stored
C17_Witness ==
    /\ topio_user # <<>>
    /\ \E w, v \in Workers :
          /\ Done(w, "register_asset") /\ UnhandledFault(res[w])
          /\ Done(v, "register_user") /\ UnhandledFault(res[v])


(***************************************************************************)
(* C18: asset sequence numbers are strictly increasing and never reused:   *)
(* a register_asset that succeeds after another register_asset has         *)
(* completed with an asset returns a greater sequence number, the stored   *)
(* rows carry increasing numbers in the order they were stored, and every  *)
(* number handed out is greater than every number taken before it, those   *)
(* taken by failed registrations included.                                 *)
(***************************************************************************)
C18_SequenceStrictlyIncreasing ==
    /\ [](/\ \A w, v \in Workers :
                (v \in after[w] /\ RegisteredAsset(w) /\ RegisteredAsset(v))
                => res[w].body._id > res[v].body._id
          /\ \A i, j \in 1..Len(topio_asset) :
                i < j => topio_asset[i]._id < topio_asset[j]._id)
    /\ [][\A w \in Workers :
            (CommitsAsset(w) /\ Success(res'[w]))
            => /\ res'[w].body._id > topio_asset__id_seq
               /\ \A id \in AssetIds : res'[w].body._id > id]_vars

\* an asset registered after another one, with a failed registration
\* between the two: the later number skips the one the failure took
C18_Witness ==
    \E w, v \in Workers :
        /\ v \in after[w]
        /\ RegisteredAsset(w) /\ RegisteredAsset(v)
        /\ res[w].body._id > res[v].body._id + 1


(***************************************************************************)
(* C19: the store is append-only: every row of the users, asset types and  *)
(* assets tables is still a row, with the same values in every column,     *)
(* after any step of any operation, and a step that takes up a lookup, a   *)
(* listing, resolve_global or resolve_local leaves the three tables as     *)
(* they were.                                                              *)
(***************************************************************************)
Reads == {"get_user_info", "get_asset_namespace_info", "get_asset_types",
          "get_users_assets", "get_topio_id", "get_custom_id"}

C19_AppendOnly ==
    [][/\ Rows(topio_user) \subseteq Rows(topio_user')
       /\ Rows(topio_asset_type) \subseteq Rows(topio_asset_type')
       /\ Rows(topio_asset) \subseteq Rows(topio_asset')
       /\ \A w \in Workers :
             (TakesUp(w) /\ req'[w].op \in Reads) => tables' = tables]_vars

\* the three tables have rows, a second registration of the stored asset
\* type with another description has been rejected, and a listing of the
\* owner's assets has been answered from the stored rows
C19_Witness ==
    /\ topio_user # <<>> /\ topio_asset_type # <<>> /\ topio_asset # <<>>
    /\ \E w, v \in Workers :
          /\ Done(w, "get_users_assets") /\ res[w].body # {}
          /\ Done(v, "register_asset_type") /\ UnhandledFault(res[v])

====
